---- MODULE Spec2Model ----
(***************************************************************************)
(* build.py of AVR-PX4-Firmware: the container() pipeline that reconciles  *)
(* the PX4 checkout (clone_px4), the pymavlink checkout (clone_pymavlink), *)
(* injects bell.xml, commits locally and builds the requested artifacts    *)
(* (build_pymavlink, build_px4).  One behaviour is a series of runs of     *)
(* container() against the same working directory; a run ends by           *)
(* returning, by an exception (a command's non-zero exit) or by being      *)
(* killed.                                                                 *)
(*                                                                         *)
(* External tools are known to build.py by their exit status only, so      *)
(* every subprocess step may exit 0 or non-zero.  Two kinds of step must   *)
(* exit non-zero because of the state they find: git apply on a tree that  *)
(* already holds the patch, and git commit with nothing staged.            *)
(***************************************************************************)
EXTENDS Integers, Sequences, FiniteSets, TLC

\* Bounds of the model.
MaxRuns == 2
MaxTargets == 2
MaxDepth == 3

(***************************************************************************)
(* Version strings.  A string is the sequence of its character codes, so   *)
(* that Python's < on str is the lexicographic order it is in the code.    *)
(***************************************************************************)
RECURSIVE Digits(_)
Digits(n) == IF n < 10 THEN <<48 + n>> ELSE Digits(n \div 10) \o <<48 + (n % 10)>>

\* "v<major>.<minor>.<patch>"
Render(v) == <<118>> \o Digits(v[1]) \o <<46>> \o Digits(v[2]) \o <<46>> \o Digits(v[3])

\* Releases a .px4-version file may pin.
Releases == {<<1, 9, 0>>, <<1, 12, 3>>, <<1, 13, 0>>}

VersionStrings == {Render(v) : v \in Releases}

\* The release a version string names.
ReleaseOf(s) == CHOOSE v \in Releases : Render(v) = s

\* Python str.__lt__
RECURSIVE StrLess(_, _)
StrLess(a, b) ==
    IF b = <<>> THEN FALSE
    ELSE IF a = <<>> THEN TRUE
    ELSE IF Head(a) < Head(b) THEN TRUE
    ELSE IF Head(a) > Head(b) THEN FALSE
    ELSE StrLess(Tail(a), Tail(b))

\* The literal "v1.13.0" of lines 18, 228, 251 and 279.
BoundaryString == <<118, 49, 46, 49, 51, 46, 48>>

\* PX4_VERSION < "v1.13.0"
IsLegacy(ver) == StrLess(ver, BoundaryString)

\* Order of releases: component-wise integer comparison.
ReleaseLess(v, w) ==
    \/ v[1] < w[1]
    \/ v[1] = w[1] /\ v[2] < w[2]
    \/ v[1] = w[1] /\ v[2] = w[2] /\ v[3] < w[3]

BoundaryRelease == <<1, 13, 0>>

(***************************************************************************)
(* Inputs of a run.                                                        *)
(***************************************************************************)
Targets == {"A", "B"}
RunVersions == {"r1", "r2"}

TargetLists == UNION {[1..n -> Targets] : n \in 1..MaxTargets}

(***************************************************************************)
(* The working directory.                                                  *)
(***************************************************************************)
\* PX4_DIR does not exist.
NoCheckoutMutant ==
    [exists |-> TRUE, origin |-> <<>>, rev |-> <<>>, local |-> FALSE,
     patch |-> 0, edits |-> FALSE, staged |-> FALSE, bell |-> "none",
     bellrev |-> 0, gen |-> FALSE, email |-> "none", name |-> "none"]
NoCheckout ==
    [exists |-> FALSE, origin |-> <<>>, rev |-> <<>>, local |-> FALSE,
     patch |-> 0, edits |-> FALSE, staged |-> FALSE, bell |-> "none",
     bellrev |-> 0, gen |-> FALSE, email |-> "none", name |-> "none"]

\* git clone <url> PX4_DIR --depth 1 --branch ver --recurse-submodules
FreshCheckout(ver) ==
    [exists |-> TRUE, origin |-> ver, rev |-> ver, local |-> FALSE,
     patch |-> 0, edits |-> FALSE, staged |-> FALSE, bell |-> "none",
     bellrev |-> 0, gen |-> FALSE, email |-> "none", name |-> "none"]

\* A directory: whether os.path.isdir holds of it, and the files in it.
NoDirectory == [isdir |-> FALSE, entries |-> {}]
Directory(entries) == [isdir |-> TRUE, entries |-> entries]

\* PYMAVLINK_DIR does not exist.
NoLibrary ==
    [exists |-> FALSE, pinned |-> FALSE, patched |-> FALSE, defs |-> 0, out |-> NoDirectory]

\* A pymavlink checkout as cloned; pinned: at the revision the PX4 release selects;
\* defs: the revision of bell.xml in its message_definitions/v1.0, 0 for none;
\* out: its dist directory, which setup.py creates.
FreshLibrary(pinned) ==
    [exists |-> TRUE, pinned |-> pinned, patched |-> FALSE, defs |-> 0, out |-> NoDirectory]

\* The two places PYMAVLINK_DIR names (lines 18-28).
LibraryPlace(ver) == IF IsLegacy(ver) THEN "legacy" ELSE "nested"

VARIABLES
    PX4_VERSION,            \* the stripped content of .px4-version
    px4,                    \* the checkout at PX4_DIR
    lib,                    \* the checkouts at the two places of PYMAVLINK_DIR
    dist,                   \* the files of DIST_DIR
    pc,                     \* the statement the run is at
    stack,                  \* return addresses of the calls of clone_px4
    log,                    \* this run's steps, in order, each with its exit status
    run,                    \* runs started
    should_build_pymavlink, \* FALSE until container() reads it (line 304)
    should_build_px4,       \* FALSE until container() reads it (line 307)
    version,                \* "" until build_px4 is called
    targets,                \* <<>> until build_px4 is called
    idx,                    \* position of build_px4's loop
    local_version,          \* clone_px4's local, <<>> outside the call
    once,                   \* the checkout the first of a row of reconciliations left
    row,                    \* successful reconciliations in a row of the same pinned version
    prevInterrupted         \* the previous run was killed, and this run is not yet
                            \* past the return of clone_px4

vars == <<PX4_VERSION, px4, lib, dist, pc, stack, log, run, should_build_pymavlink,
          should_build_px4, version, targets, idx, local_version, once, row,
          prevInterrupted>>

disk == <<px4, lib, dist>>
args == <<should_build_pymavlink, should_build_px4, version, targets>>
frame == <<stack, idx, local_version>>
hist == <<once, row, prevInterrupted>>

Ended == {"idle", "done", "failed", "interrupted"}

Init ==
    /\ PX4_VERSION = <<>>
    /\ px4 = NoCheckout
    /\ lib = [p \in {"legacy", "nested"} |-> NoLibrary]
    /\ dist = {}
    /\ pc = "idle"
    /\ stack = <<>>
    /\ log = <<>>
    /\ run = 0
    /\ should_build_pymavlink = FALSE
    /\ should_build_px4 = FALSE
    /\ version = ""
    /\ targets = <<>>
    /\ idx = 0
    /\ local_version = <<>>
    /\ once = NoCheckout
    /\ row = 0
    /\ prevInterrupted = FALSE

\* A step of the run: a subprocess (its exit status rc) or a file operation.
Entry(cmd, arg, rc) == [cmd |-> cmd, arg |-> arg, rc |-> rc]

Logged(cmd, arg, rc) == log' = Append(log, Entry(cmd, arg, rc))

\* subprocess.check_call / check_output: a non-zero exit raises, and nothing catches it.
AfterMutant(rc, next) == next
After(rc, next) == IF rc = 0 THEN next ELSE "failed"

(***************************************************************************)
(* A run starts: module load (lines 15-28) and the call of container().    *)
(***************************************************************************)
BeginRun ==
    /\ pc \in Ended
    /\ run < MaxRuns
    /\ run' = run + 1
    /\ \E ver \in VersionStrings :
         /\ PX4_VERSION' = ver
         /\ row' = IF ver = PX4_VERSION THEN row ELSE 0
         /\ once' = IF ver = PX4_VERSION THEN once ELSE NoCheckout
         \* lines 228-232
         /\ pc' = IF IsLegacy(ver) THEN "clone_pymavlink" ELSE "clone_px4"
    /\ should_build_pymavlink' = FALSE
    /\ should_build_px4' = FALSE
    /\ version' = ""
    /\ targets' = <<>>
    /\ idx' = 0
    /\ local_version' = <<>>
    /\ stack' = <<>>
    /\ log' = <<>>
    /\ prevInterrupted' = (pc = "interrupted")
    /\ UNCHANGED disk

\* The process is killed between two steps.
Interrupt ==
    /\ pc \notin Ended
    /\ pc' = "interrupted"
    /\ UNCHANGED <<PX4_VERSION, disk, args, frame, log, run, hist>>

\* Between runs the operator edits tracked files of the checkout.
LocalEdit ==
    /\ pc \in Ended
    /\ px4.exists
    /\ ~px4.edits
    /\ px4' = [px4 EXCEPT !.edits = TRUE]
    /\ row' = 0
    /\ once' = NoCheckout
    /\ UNCHANGED <<PX4_VERSION, lib, dist, pc, args, frame, log, run, prevInterrupted>>

(***************************************************************************)
(* clone_pymavlink, lines 72-83                                            *)
(***************************************************************************)
ClonePymavlink ==
    /\ pc = "clone_pymavlink"
    /\ \E rc \in {0, 1} :
         IF lib["legacy"].exists
         THEN /\ Logged("git pull", "pymavlink", rc)
              /\ pc' = After(rc, "clone_px4")
              /\ UNCHANGED lib
         ELSE /\ Logged("git clone", "pymavlink", rc)
              /\ pc' = After(rc, "clone_px4")
              /\ lib' = IF rc = 0 THEN [lib EXCEPT !["legacy"] = FreshLibrary(FALSE)] ELSE lib
    /\ UNCHANGED <<PX4_VERSION, px4, dist, args, frame, run, hist>>

(***************************************************************************)
(* clone_px4, lines 86-137                                                 *)
(***************************************************************************)
\* The call of line 232 and the recursive call of line 101, each with the
\* statement it returns to.
EnterClonePx4 ==
    /\ pc \in {"clone_px4", "recurse"}
    /\ Len(stack) < MaxDepth
    /\ stack' = <<IF pc = "clone_px4" THEN "pip_upgrade" ELSE "fetch">> \o stack
    /\ pc' = "px4_isdir"
    /\ UNCHANGED <<PX4_VERSION, disk, args, idx, local_version, log, run, hist>>

\* line 87
PX4IsDir ==
    /\ pc = "px4_isdir"
    /\ pc' = IF px4.exists THEN "remote_show" ELSE "git_clone"
    /\ UNCHANGED <<PX4_VERSION, disk, args, frame, log, run, hist>>

\* lines 89-98: the version the checkout was cloned at, read from its remote refs
RemoteShow ==
    /\ pc = "remote_show"
    /\ \E rc \in {0, 1} :
         /\ Logged("git remote show", "px4", rc)
         /\ local_version' = IF rc = 0 THEN px4.origin ELSE local_version
         /\ pc' = IF rc # 0 THEN "failed"
                  ELSE IF px4.origin # PX4_VERSION THEN "rmtree" ELSE "fetch"
    /\ UNCHANGED <<PX4_VERSION, disk, args, stack, idx, run, hist>>

\* line 100: the nested library checkout lies inside PX4_DIR
RmtreeMutant ==
    /\ pc = "rmtree"
    /\ Logged("rmtree", "px4", 0)
    /\ pc' = "fetch"
    /\ UNCHANGED <<PX4_VERSION, disk, args, frame, run, hist>>
Rmtree ==
    /\ pc = "rmtree"
    /\ Logged("rmtree", "px4", 0)
    /\ px4' = NoCheckout
    /\ lib' = [lib EXCEPT !["nested"] = NoLibrary]
    /\ pc' = "recurse"
    /\ UNCHANGED <<PX4_VERSION, dist, args, frame, run, hist>>

\* line 106
GitFetch ==
    /\ pc = "fetch"
    /\ \E rc \in {0, 1} :
         /\ Logged("git fetch", "px4", rc)
         /\ pc' = After(rc, "checkout")
    /\ UNCHANGED <<PX4_VERSION, disk, args, frame, run, hist>>

\* line 107: HEAD moves to the tag; uncommitted changes stay in the working tree,
\* the content of a local commit leaves it
GitCheckout ==
    /\ pc = "checkout"
    /\ \E rc \in {0, 1} :
         /\ Logged("git checkout", "px4", rc)
         /\ pc' = After(rc, "reset")
         /\ px4' = IF rc = 0
                   THEN [px4 EXCEPT !.rev = PX4_VERSION, !.local = FALSE,
                                    !.patch = IF px4.local THEN 0 ELSE @]
                   ELSE px4
    /\ UNCHANGED <<PX4_VERSION, lib, dist, args, frame, run, hist>>

\* line 108: index and tracked files are those of the tag; untracked files stay
GitResetMutant ==
    /\ pc = "reset"
    /\ \E rc \in {0, 1} :
         /\ Logged("git reset", "px4", rc)
         /\ pc' = After(rc, "pull")
    /\ UNCHANGED <<PX4_VERSION, disk, args, frame, run, hist>>
GitReset ==
    /\ pc = "reset"
    /\ \E rc \in {0, 1} :
         /\ Logged("git reset", "px4", rc)
         /\ pc' = After(rc, "pull")
         /\ px4' = IF rc = 0
                   THEN [px4 EXCEPT !.rev = PX4_VERSION, !.local = FALSE, !.patch = 0,
                                    !.edits = FALSE, !.staged = FALSE]
                   ELSE px4
    /\ UNCHANGED <<PX4_VERSION, lib, dist, args, frame, run, hist>>

\* line 109
GitPull ==
    /\ pc = "pull"
    /\ \E rc \in {0, 1} :
         /\ Logged("git pull", "px4", rc)
         /\ pc' = After(rc, "apply")
    /\ UNCHANGED <<PX4_VERSION, disk, args, frame, run, hist>>

\* lines 113-125
GitClone ==
    /\ pc = "git_clone"
    /\ \E rc \in {0, 1} :
         /\ Logged("git clone", "px4", rc)
         /\ pc' = After(rc, "apply")
         /\ px4' = IF rc = 0 THEN FreshCheckout(PX4_VERSION) ELSE px4
         /\ lib' = IF rc = 0 THEN [lib EXCEPT !["nested"] = FreshLibrary(TRUE)] ELSE lib
    /\ UNCHANGED <<PX4_VERSION, dist, args, frame, run, hist>>

\* git apply exits non-zero on a tree that already holds the patch.
ApplyExits(level) == IF level = 0 THEN {0, 1} ELSE {1}

\* lines 128-137, and the return of clone_px4
GitApply ==
    /\ pc = "apply"
    /\ \E rc \in ApplyExits(px4.patch) :
         /\ Logged("git apply", "px4", rc)
         /\ pc' = After(rc, Head(stack))
         /\ stack' = IF rc = 0 THEN Tail(stack) ELSE stack
         /\ px4' = IF rc = 0 THEN [px4 EXCEPT !.patch = @ + 1] ELSE px4
         /\ IF rc = 0 /\ Len(stack) = 1
            THEN /\ row' = row + 1
                 /\ once' = IF row = 0 THEN px4' ELSE once
            ELSE UNCHANGED <<row, once>>
    /\ UNCHANGED <<PX4_VERSION, lib, dist, args, idx, local_version, run, prevInterrupted>>

(***************************************************************************)
(* container, lines 234-302                                                *)
(***************************************************************************)
\* lines 236-238; clone_px4 has returned and its local is gone
PipUpgrade ==
    /\ pc = "pip_upgrade"
    /\ \E rc \in {0, 1} :
         /\ Logged("pip install", "pip wheel", rc)
         /\ pc' = After(rc, "pip_requirements")
    /\ local_version' = <<>>
    /\ prevInterrupted' = FALSE
    /\ UNCHANGED <<PX4_VERSION, disk, args, stack, idx, run, once, row>>

\* lines 239-248
PipRequirementsMutant ==
    /\ pc = "pip_requirements"
    /\ \E rc \in {0, 1} :
         /\ Logged("pip install", "requirements", rc)
         /\ pc' = After(rc, "config_email")
    /\ UNCHANGED <<PX4_VERSION, disk, args, frame, run, hist>>
PipRequirements ==
    /\ pc = "pip_requirements"
    /\ \E rc \in {0, 1} :
         /\ Logged("pip install", "requirements", rc)
         /\ pc' = After(rc, "inject")
    /\ UNCHANGED <<PX4_VERSION, disk, args, frame, run, hist>>

\* lines 251-271: which of the two definitions directories of the PX4 tree is used
MessageDefinitionsDir(ver) == IF IsLegacy(ver) THEN "legacy" ELSE "nested"

\* line 276: THIS_DIR/bell.xml, which is edited between any two runs: its
\* content in the n-th run is revision n.
bell_xml == run

\* lines 273-276: bell.xml is copied over whatever is there
Inject ==
    /\ pc = "inject"
    /\ Logged("copyfile bell.xml", MessageDefinitionsDir(PX4_VERSION), 0)
    /\ px4' = [px4 EXCEPT !.bell = MessageDefinitionsDir(PX4_VERSION), !.bellrev = bell_xml]
    /\ pc' = IF IsLegacy(PX4_VERSION) THEN "mavgen_c" ELSE "config_email"
    /\ row' = 0
    /\ once' = NoCheckout
    /\ UNCHANGED <<PX4_VERSION, lib, dist, args, frame, run, prevInterrupted>>

\* lines 279-291
MavgenC ==
    /\ pc = "mavgen_c"
    /\ \E rc \in {0, 1} :
         /\ Logged("mavgen", "C", rc)
         /\ pc' = After(rc, "config_email")
         /\ px4' = IF rc = 0 THEN [px4 EXCEPT !.gen = TRUE] ELSE px4
    /\ UNCHANGED <<PX4_VERSION, lib, dist, args, frame, run, hist>>

\* lines 295-297
ConfigEmail ==
    /\ pc = "config_email"
    /\ \E rc \in {0, 1} :
         /\ Logged("git config", "user.email", rc)
         /\ pc' = After(rc, "config_name")
         /\ px4' = IF rc = 0 THEN [px4 EXCEPT !.email = "bot"] ELSE px4
    /\ UNCHANGED <<PX4_VERSION, lib, dist, args, frame, run, hist>>

\* line 298
ConfigName ==
    /\ pc = "config_name"
    /\ \E rc \in {0, 1} :
         /\ Logged("git config", "user.name", rc)
         /\ pc' = After(rc, "git_add")
         /\ px4' = IF rc = 0 THEN [px4 EXCEPT !.name = "bot"] ELSE px4
    /\ UNCHANGED <<PX4_VERSION, lib, dist, args, frame, run, hist>>

\* The tracked files of the working tree differ from HEAD.  The patch is part of
\* a local commit; bell.xml and the generated bindings lie in submodule paths.
WorkingTreeChanged(t) == IF t.local THEN t.edits ELSE t.patch > 0 \/ t.edits

\* line 299
GitAdd ==
    /\ pc = "git_add"
    /\ \E rc \in {0, 1} :
         /\ Logged("git add", "px4", rc)
         /\ pc' = After(rc, "git_commit")
         /\ px4' = IF rc = 0
                   THEN [px4 EXCEPT !.staged = @ \/ WorkingTreeChanged(px4)]
                   ELSE px4
    /\ UNCHANGED <<PX4_VERSION, lib, dist, args, frame, run, hist>>

\* git commit exits non-zero when nothing is staged ("nothing to commit").
CommitExits(staged) == IF staged THEN {0, 1} ELSE {1}

\* lines 304-308: what container() does after the commit
AfterCommit(pm, fw) == IF pm THEN "pm_reset" ELSE IF fw THEN "build_px4" ELSE "done"

\* lines 300-302, and lines 304 and 307, where container() first reads its
\* two flags: they are drawn here
GitCommit ==
    /\ pc = "git_commit"
    /\ \E rc \in CommitExits(px4.staged), pm \in BOOLEAN, fw \in BOOLEAN :
         /\ Logged("git commit", "px4", rc)
         /\ should_build_pymavlink' = (rc = 0 /\ pm)
         /\ should_build_px4' = (rc = 0 /\ fw)
         /\ pc' = After(rc, AfterCommit(pm, fw))
         /\ px4' = IF rc = 0
                   THEN [px4 EXCEPT !.local = TRUE, !.staged = FALSE, !.edits = FALSE]
                   ELSE px4
    /\ UNCHANGED <<PX4_VERSION, lib, dist, version, targets, frame, run, hist>>

(***************************************************************************)
(* Files of DIST_DIR and of the library's dist directory.                  *)
(***************************************************************************)
File(target, pxver, runver, ext) ==
    [target |-> target, pxver |-> pxver, runver |-> runver, ext |-> ext]

\* line 217: f"{target}.{PX4_VERSION}.{version}.px4"
FirmwareNameMutant(target, pxver, runver) == File(target, pxver, "", "px4")
FirmwareName(target, pxver, runver) == File(target, pxver, runver, "px4")

\* What setup.py sdist bdist_wheel writes: the names carry the version of the
\* library, which goes with the PX4 release.  And the plugin of line 197.
PackageNames(pxver) == {File("pymavlink", pxver, "", "tar.gz"), File("pymavlink", pxver, "", "whl")}
PluginName == File("bell-avr", <<>>, "", "lua")

\* A directory entry: the file's name and the run version of the build that is
\* its content ("" for the packages and the plugin, which carry none).
Stored(name, by) == [name |-> name, by |-> by]

Packages(pxver) == {Stored(n, "") : n \in PackageNames(pxver)}
Plugin == Stored(PluginName, "")

\* shutil.copyfile into a directory: an entry of that name is overwritten
WriteFile(files, entry) == {f \in files : f.name # entry.name} \cup {entry}

\* lines 62-69: nothing happens to a directory that is not there; of one that is,
\* the entries whose names end with one of file_endings are removed
clean_directoryMutant(directory, file_endings) ==
    IF ~directory.isdir THEN directory
    ELSE [directory EXCEPT !.entries = {f \in @ : f.name.ext \in file_endings}]
clean_directory(directory, file_endings) ==
    IF ~directory.isdir THEN directory
    ELSE [directory EXCEPT !.entries = {f \in @ : f.name.ext \notin file_endings}]

(***************************************************************************)
(* build_pymavlink, lines 140-201                                          *)
(***************************************************************************)
Place == LibraryPlace(PX4_VERSION)

\* line 144
PmReset ==
    /\ pc = "pm_reset"
    /\ \E rc \in {0, 1} :
         /\ Logged("git reset", "pymavlink", rc)
         /\ pc' = After(rc, "pm_apply")
         /\ lib' = IF rc = 0 THEN [lib EXCEPT ![Place].patched = FALSE] ELSE lib
    /\ UNCHANGED <<PX4_VERSION, px4, dist, args, frame, run, hist>>

\* lines 145-154
PmApply ==
    /\ pc = "pm_apply"
    /\ \E rc \in ApplyExits(IF lib[Place].patched THEN 1 ELSE 0) :
         /\ Logged("git apply", "pymavlink", rc)
         /\ pc' = After(rc, "pm_copydefs")
         /\ lib' = IF rc = 0 THEN [lib EXCEPT ![Place].patched = TRUE] ELSE lib
    /\ UNCHANGED <<PX4_VERSION, px4, dist, args, frame, run, hist>>

\* lines 157-164: the library's definitions are replaced by those of the PX4 tree
PmCopyDefsMutant ==
    /\ pc = "pm_copydefs"
    /\ Logged("copytree", MessageDefinitionsDir(PX4_VERSION), 0)
    /\ pc' = "pm_clean"
    /\ UNCHANGED <<PX4_VERSION, disk, args, frame, run, hist>>
PmCopyDefs ==
    /\ pc = "pm_copydefs"
    /\ Logged("copytree", MessageDefinitionsDir(PX4_VERSION), 0)
    /\ lib' = [lib EXCEPT ![Place].defs =
                 IF px4.bell = MessageDefinitionsDir(PX4_VERSION) THEN px4.bellrev ELSE 0]
    /\ pc' = "pm_clean"
    /\ UNCHANGED <<PX4_VERSION, px4, dist, args, frame, run, hist>>

\* lines 166-170
PmClean ==
    /\ pc = "pm_clean"
    /\ Logged("clean_directory", "packages", 0)
    /\ lib' = [lib EXCEPT ![Place].out = clean_directory(@, {"tar.gz", "whl"})]
    /\ dist' = clean_directory(Directory(dist), {"tar.gz", "whl"}).entries
    /\ pc' = "pm_setup"
    /\ UNCHANGED <<PX4_VERSION, px4, args, frame, run, hist>>

\* lines 173-179
PmSetup ==
    /\ pc = "pm_setup"
    /\ \E rc \in {0, 1} :
         /\ Logged("setup.py", "sdist bdist_wheel", rc)
         /\ pc' = After(rc, "pm_copyout")
         /\ lib' = IF rc = 0
                   THEN [lib EXCEPT ![Place].out =
                            Directory({f \in @.entries :
                                          \A g \in Packages(PX4_VERSION) : g.name # f.name}
                                      \cup Packages(PX4_VERSION))]
                   ELSE lib
    /\ UNCHANGED <<PX4_VERSION, px4, dist, args, frame, run, hist>>

\* lines 182-186
PmCopyOut ==
    /\ pc = "pm_copyout"
    /\ Logged("copyfile", "packages", 0)
    /\ dist' = {f \in dist : \A g \in lib[Place].out.entries : g.name # f.name}
                \cup lib[Place].out.entries
    /\ pc' = "pm_wlua"
    /\ UNCHANGED <<PX4_VERSION, px4, lib, args, frame, run, hist>>

\* lines 190-201, and the return to line 307
PmWLua ==
    /\ pc = "pm_wlua"
    /\ \E rc \in {0, 1} :
         /\ Logged("mavgen", "WLua", rc)
         /\ pc' = After(rc, IF should_build_px4 THEN "build_px4" ELSE "done")
         /\ dist' = IF rc = 0 THEN WriteFile(dist, Plugin) ELSE dist
    /\ UNCHANGED <<PX4_VERSION, px4, lib, args, frame, run, hist>>

(***************************************************************************)
(* build_px4, lines 204-218                                                *)
(***************************************************************************)
\* line 204: the call of line 308 binds targets and version, which container()
\* only passes on
EnterBuildPx4 ==
    /\ pc = "build_px4"
    /\ \E ts \in TargetLists, v \in RunVersions :
         /\ targets' = ts
         /\ version' = v
    /\ pc' = "fw_clean"
    /\ UNCHANGED <<PX4_VERSION, disk, should_build_pymavlink, should_build_px4,
                   frame, log, run, hist>>

\* lines 207-211
FwCleanMutant ==
    /\ pc = "fw_clean"
    /\ Logged("clean_directory", "px4", 0)
    /\ idx' = 1
    /\ pc' = "fw_make"
    /\ UNCHANGED <<PX4_VERSION, disk, args, stack, local_version, run, hist>>
FwClean ==
    /\ pc = "fw_clean"
    /\ Logged("clean_directory", "px4", 0)
    /\ dist' = clean_directory(Directory(dist), {"px4"}).entries
    /\ idx' = 1
    /\ pc' = "fw_make"
    /\ UNCHANGED <<PX4_VERSION, px4, lib, args, stack, local_version, run, hist>>

\* line 214
FwMakeMutant ==
    /\ pc = "fw_make"
    /\ \E rc \in {0, 1} :
         /\ Logged("make", targets[idx], rc)
         /\ pc' = "fw_copy"
    /\ UNCHANGED <<PX4_VERSION, disk, args, frame, run, hist>>
FwMake ==
    /\ pc = "fw_make"
    /\ \E rc \in {0, 1} :
         /\ Logged("make", targets[idx], rc)
         /\ pc' = After(rc, "fw_copy")
    /\ UNCHANGED <<PX4_VERSION, disk, args, frame, run, hist>>

\* lines 215-218, and the next turn of the loop
FwCopy ==
    /\ pc = "fw_copy"
    /\ Logged("copyfile", targets[idx], 0)
    /\ dist' = WriteFile(dist, Stored(FirmwareName(targets[idx], PX4_VERSION, version), version))
    /\ idx' = idx + 1
    /\ pc' = IF idx < Len(targets) THEN "fw_make" ELSE "done"
    /\ UNCHANGED <<PX4_VERSION, px4, lib, args, stack, local_version, run, hist>>

Next ==
    \/ BeginRun
    \/ Interrupt
    \/ LocalEdit
    \/ ClonePymavlink
    \/ EnterClonePx4
    \/ PX4IsDir
    \/ RemoteShow
    \/ Rmtree
    \/ GitFetch
    \/ GitCheckout
    \/ GitReset
    \/ GitPull
    \/ GitClone
    \/ GitApply
    \/ PipUpgrade
    \/ PipRequirements
    \/ Inject
    \/ MavgenC
    \/ ConfigEmail
    \/ ConfigName
    \/ GitAdd
    \/ GitCommit
    \/ PmReset
    \/ PmApply
    \/ PmCopyDefs
    \/ PmClean
    \/ PmSetup
    \/ PmCopyOut
    \/ PmWLua
    \/ EnterBuildPx4
    \/ FwClean
    \/ FwMake
    \/ FwCopy

Spec == Init /\ [][Next]_vars

(***************************************************************************)
(* The commit stage and the builds (lines 293-308) on any checkout: the    *)
(* run stands before line 295 with a checkout of the pinned version whose  *)
(* tracked files may or may not differ from HEAD, and whose git config may *)
(* or may not hold an author identity of the operator's.                   *)
(***************************************************************************)
Identities == {"none", "user"}

InitStage ==
    /\ \E ver \in VersionStrings, level \in {0, 1}, edited \in BOOLEAN, committed \in BOOLEAN,
          mail \in Identities, author \in Identities :
         /\ committed => level = 1
         /\ PX4_VERSION = ver
         /\ px4 = [FreshCheckout(ver) EXCEPT !.patch = level, !.edits = edited,
                                            !.local = committed,
                                            !.bell = MessageDefinitionsDir(ver),
                                            !.bellrev = 1,
                                            !.gen = IsLegacy(ver),
                                            !.email = mail, !.name = author]
         /\ lib = [p \in {"legacy", "nested"} |->
                     IF p = "nested" THEN FreshLibrary(TRUE)
                     ELSE IF IsLegacy(ver) THEN FreshLibrary(FALSE) ELSE NoLibrary]
    /\ should_build_pymavlink = FALSE
    /\ should_build_px4 = FALSE
    /\ dist = {}
    /\ pc = "config_email"
    /\ stack = <<>>
    /\ log = <<>>
    /\ run = 1
    /\ version = ""
    /\ targets = <<>>
    /\ idx = 0
    /\ local_version = <<>>
    /\ once = NoCheckout
    /\ row = 0
    /\ prevInterrupted = FALSE

NextStage ==
    \/ ConfigEmail
    \/ ConfigName
    \/ GitAdd
    \/ GitCommit
    \/ PmReset
    \/ PmApply
    \/ PmCopyDefs
    \/ PmClean
    \/ PmSetup
    \/ PmCopyOut
    \/ PmWLua
    \/ EnterBuildPx4
    \/ FwClean
    \/ FwMake
    \/ FwCopy

SpecStage == InitStage /\ [][NextStage]_vars

(***************************************************************************)
(* Properties                                                              *)
(***************************************************************************)
Last == log[Len(log)]

Invoked(cmd, arg) == \E i \in DOMAIN log : log[i].cmd = cmd /\ log[i].arg = arg

\* The checkout is that of the pinned version with the patch applied once on
\* top: HEAD at the tag, nothing staged, no other change to tracked files.
Reconciled ==
    /\ px4.exists
    /\ px4.origin = PX4_VERSION
    /\ px4.rev = PX4_VERSION
    /\ ~px4.local
    /\ ~px4.staged
    /\ ~px4.edits
    /\ px4.patch = 1

\* The top-level call of clone_px4 has just returned.
ReconcileReturned == pc = "pip_upgrade"

\* C1: whatever checkout a run finds (none, one of the pinned version, clean or
\* with local edits, one of another version), clone_px4 either raises or
\* returns with the checkout at the pinned version and the patch applied once
\* on the clean tree.
C1_ReconcileResult == ReconcileReturned => Reconciled

\* C1 on the wrong-version path: the run found a checkout of another version.
C1_Witness ==
    /\ ReconcileReturned
    /\ local_version # <<>>
    /\ local_version # PX4_VERSION
    /\ Reconciled

\* C2: a second reconciliation in a row, same pinned version, leaves the tree
\* the first one left, and git apply never runs on a tree that holds the patch.
C2_Idempotent ==
    /\ pc = "apply" => px4.patch = 0
    /\ ReconcileReturned /\ row >= 2 => px4 = once

\* C2: the second of two reconciliations in a row has returned.
C2_Witness == ReconcileReturned /\ row = 2 /\ px4 = once /\ px4.patch = 1

\* The pinned version precedes v1.13.0 in the order of releases.
BelowBoundary == ReleaseLess(ReleaseOf(PX4_VERSION), BoundaryRelease)

\* C3: below the layout boundary v1.13.0 bell.xml is copied into the legacy
\* definitions directory and the binding generator is invoked; at or above
\* the boundary it is copied into the nested directory and the generator is
\* not invoked.
C3_VersionGatedInjection ==
    /\ \A i \in DOMAIN log :
          log[i].cmd = "copyfile bell.xml" =>
              log[i].arg = (IF BelowBoundary THEN "legacy" ELSE "nested")
    /\ pc = "config_email" /\ Invoked("copyfile bell.xml", "legacy") =>
          Invoked("mavgen", "C")
    /\ pc = "config_email" /\ Invoked("copyfile bell.xml", "nested") =>
          ~Invoked("mavgen", "C")
    /\ pc = "mavgen_c" => BelowBoundary

\* git commit found nothing staged and exited non-zero.
NothingToCommit ==
    /\ Len(log) > 0
    /\ Last.cmd = "git commit"
    /\ Last.rc # 0
    /\ ~px4.staged

FwSegment ==
    LET k == CHOOSE k \in DOMAIN log : log[k] = Entry("clean_directory", "px4", 0)
    IN  SubSeq(log, k + 1, Len(log))

\* make and copy of the first n targets, in the order of the list.
FwDone(n) ==
    [k \in 1..(2 * n) |->
        IF k % 2 = 1 THEN Entry("make", targets[(k + 1) \div 2], 0)
        ELSE Entry("copyfile", targets[k \div 2], 0)]

\* The firmware images of DIST_DIR.
Images == {f.name : f \in {g \in dist : g.name.ext = "px4"}}

\* C5: build_px4 makes and copies the targets in list order; when the make of
\* the target at position idx fails the run fails, DIST_DIR holds the images
\* of the targets before idx and of no other, nothing was copied for position
\* idx, and no later target was made or copied.
C5_FirmwareOrderAndFailure ==
    Invoked("clean_directory", "px4") =>
        /\ pc \in {"fw_make", "fw_copy", "failed", "done", "interrupted"}
        /\ idx \in 1..(Len(targets) + 1)
        /\ Images = {FirmwareName(targets[j], PX4_VERSION, version) : j \in 1..(idx - 1)}
        /\ pc = "fw_make" => FwSegment = FwDone(idx - 1)
        /\ pc = "fw_copy" => FwSegment = FwDone(idx - 1) \o <<Entry("make", targets[idx], 0)>>
        /\ pc = "failed" => FwSegment = FwDone(idx - 1) \o <<Entry("make", targets[idx], 1)>>
        /\ pc = "done" => idx = Len(targets) + 1 /\ FwSegment = FwDone(Len(targets))

\* C5: targets <<"A", "B">>, the make of "B" failed, the image of "A" is in DIST_DIR.
C5_Witness ==
    /\ targets = <<"A", "B">>
    /\ pc = "failed"
    /\ idx = 2
    /\ Last = Entry("make", "B", 1)
    /\ Images = {FirmwareName("A", PX4_VERSION, version)}

\* C6: when build_px4 is entered, every image DIST_DIR holds of one of this
\* run's targets and of the pinned version that was built by a run of another
\* run version has another name than the image this run writes for that target.
C6_RunVersionInName ==
    pc = "fw_clean" =>
        \A f \in dist : \A j \in DOMAIN targets :
            /\ f.name.ext = "px4"
            /\ f.name.target = targets[j]
            /\ f.name.pxver = PX4_VERSION
            /\ f.by # version
            => f.name # FirmwareName(targets[j], PX4_VERSION, version)

\* C6: build_px4 is entered with run version "r2" while DIST_DIR holds an image
\* of the same target and pinned version built by a run of version "r1".
C6_Witness ==
    /\ pc = "fw_clean"
    /\ version = "r2"
    /\ \E f \in dist : \E j \in DOMAIN targets :
          /\ f.name.ext = "px4"
          /\ f.name.target = targets[j]
          /\ f.name.pxver = PX4_VERSION
          /\ f.by = "r1"

\* C8 as stated: after an interrupted run the next reconciliation returns with
\* the pinned version patched once, is never made to fail by what the
\* interrupted run left, and nothing the interrupted run wrote is left in the
\* tree.
C8_NoRemnants ==
    prevInterrupted =>
        /\ pc = "apply" => px4.patch = 0
        /\ ReconcileReturned => Reconciled /\ px4.bell = "none" /\ ~px4.gen

\* C8 as amended: after an interrupted run the next reconciliation, unless one
\* of its commands exits non-zero, returns with the checkout at the pinned
\* version and the patch applied exactly once on reset tracked files, and what
\* the interrupted run left never makes git apply fail.
C8_RecoversTrackedState ==
    prevInterrupted =>
        /\ pc = "apply" => px4.patch = 0
        /\ ReconcileReturned => Reconciled

\* C8: the run before was interrupted after the injection (on the legacy layout
\* after binding generation); this run kept the checkout and reconciled it, and
\* bell.xml and the generated bindings are still there.
C8_Witness ==
    /\ prevInterrupted
    /\ ReconcileReturned
    /\ ~Invoked("git clone", "px4")
    /\ Reconciled
    /\ px4.bell = "legacy"
    /\ px4.gen

\* C9: only the last step of a run can have exited non-zero, and then the run
\* has failed; what the run wrote to DIST_DIR before stays there; a run that
\* returns has run every step of every requested artifact class.
C9_FailFast ==
    /\ \A i \in 1..(Len(log) - 1) : log[i].rc = 0
    /\ Len(log) > 0 /\ Last.rc # 0 => pc = "failed"
    /\ pc = "failed" => Len(log) > 0 /\ Last.rc # 0
    /\ Invoked("copyfile", "packages") => Packages(PX4_VERSION) \subseteq dist
    /\ (\E i \in DOMAIN log : log[i] = Entry("mavgen", "WLua", 0)) => Plugin \in dist
    /\ \A j \in 1..(idx - 1) : FirmwareName(targets[j], PX4_VERSION, version) \in Images
    /\ pc = "done" =>
          /\ should_build_pymavlink =>
                /\ Packages(PX4_VERSION) \subseteq dist
                /\ Plugin \in dist
                /\ \E i \in DOMAIN log : log[i] = Entry("setup.py", "sdist bdist_wheel", 0)
          /\ should_build_px4 =>
                /\ targets # <<>>
                /\ \A j \in DOMAIN targets :
                      FirmwareName(targets[j], PX4_VERSION, version) \in Images

\* C9: the packaging step failed after the library patch was applied; the run
\* has failed with that step as its last.
C9_Witness ==
    /\ pc = "failed"
    /\ Last = Entry("setup.py", "sdist bdist_wheel", 1)
    /\ should_build_px4
    /\ targets = <<>>

\* The git commands of clone_px4 that work on the checkout.
TreeCommands == {"git fetch", "git checkout", "git reset", "git pull", "git apply"}

\* C10: a checkout of another version than the pinned one is removed before
\* any fetch, checkout, reset, pull or apply, and these commands only ever run
\* on a tree cloned at the pinned version (in this run, when the run found a
\* checkout of another version).
C10_StaleNeverReused ==
    /\ pc \in {"fetch", "checkout", "reset", "pull", "apply"} =>
          /\ px4.exists
          /\ px4.origin = PX4_VERSION
    /\ local_version \notin {<<>>, PX4_VERSION} =>
          \A i \in DOMAIN log :
              log[i].cmd \in TreeCommands /\ log[i].arg = "px4" =>
                  \E j, k \in 1..(i - 1) :
                      /\ j < k
                      /\ log[j] = Entry("rmtree", "px4", 0)
                      /\ log[k] = Entry("git clone", "px4", 0)

\* C10: after a version mismatch the run is about to fetch in the new clone.
C10_Witness ==
    /\ pc = "fetch"
    /\ local_version \notin {<<>>, PX4_VERSION}
    /\ Invoked("rmtree", "px4")
    /\ px4.origin = PX4_VERSION

\* C11: when the checkout phase of a run has returned, the PX4 checkout is at
\* the pinned version and the pymavlink checkout the run uses exists and is at
\* the revision the pinned PX4 release selects, on either layout.
C11_BothCheckoutsPinned ==
    ReconcileReturned =>
        /\ px4.exists
        /\ px4.rev = PX4_VERSION
        /\ lib[Place].exists
        /\ lib[Place].pinned

\* The stage of container() a step belongs to: 1 the reconciliation of the
\* checkouts, 2 the installation of the Python dependencies, 3 the copy of
\* bell.xml, 4 the generation of the C bindings, 5 the local commit, 6 the
\* builds.
Stage(e) ==
    IF e.cmd \in {"git config", "git add", "git commit"} THEN 5
    ELSE IF e.cmd = "copyfile bell.xml" THEN 3
    ELSE IF e.cmd = "mavgen" /\ e.arg = "C" THEN 4
    ELSE IF e.cmd = "pip install" THEN 2
    ELSE IF e.arg = "px4" /\ e.cmd \in TreeCommands \cup {"git remote show", "rmtree", "git clone"} THEN 1
    ELSE IF e.arg = "pymavlink" /\ e.cmd \in {"git clone", "git pull"} THEN 1
    ELSE 6

\* C12: the steps of a run are in the order of the stages: every
\* reconciliation step comes before the copy of bell.xml, which follows the
\* successful return of clone_px4; the copy (and on the legacy layout the
\* successful generation of the bindings) comes before git commit; and a
\* successful git commit comes before every invocation of setup.py, of
\* mavgen --lang=WLua and of make.
C12_DependencyOrder ==
    /\ \A i \in 1..(Len(log) - 1) : Stage(log[i]) <= Stage(log[i + 1])
    /\ \A i \in DOMAIN log :
          /\ Stage(log[i]) = 3 => \E j \in DOMAIN log : log[j] = Entry("git apply", "px4", 0)
          /\ log[i].cmd = "git commit" =>
                /\ Invoked("copyfile bell.xml", MessageDefinitionsDir(PX4_VERSION))
                /\ IsLegacy(PX4_VERSION) => \E j \in DOMAIN log : log[j] = Entry("mavgen", "C", 0)
          /\ log[i].cmd \in {"setup.py", "make"} \/ log[i] = Entry("mavgen", "WLua", log[i].rc) =>
                \E j \in DOMAIN log : log[j] = Entry("git commit", "px4", 0)

\* C12: a run on the legacy layout that found a checkout of another version has
\* built both the package and the firmware and returned.
C12_Witness ==
    /\ pc = "done"
    /\ should_build_pymavlink
    /\ should_build_px4
    /\ Invoked("rmtree", "px4")
    /\ Invoked("mavgen", "C")
    /\ Invoked("make", "A")

\* bell.xml of this run is in the definitions directory of the PX4 tree that
\* container() passes to the generators (bell_xml_def).
BellInTree ==
    /\ px4.bell = MessageDefinitionsDir(PX4_VERSION)
    /\ px4.bellrev = bell_xml

\* C13: when mavgen --lang=C or mavgen --lang=WLua is invoked, bell.xml with
\* the content of the project's bell.xml of this run is in the definitions
\* directory of the PX4 tree it is given; when setup.py is invoked, it is in
\* the library's message_definitions/v1.0, after the library's git reset
\* --hard and the replacement of that directory.
C13_DialectPresent ==
    /\ pc \in {"mavgen_c", "pm_wlua"} => BellInTree
    /\ pc = "pm_setup" => lib[Place].defs = bell_xml

\* C13: in a second run on a kept checkout the library was reset, its
\* definitions were replaced, and setup.py is about to be invoked.
C13_Witness ==
    /\ pc = "pm_setup"
    /\ run = 2
    /\ ~Invoked("git clone", "px4")
    /\ Invoked("git reset", "pymavlink")
    /\ Invoked("copytree", MessageDefinitionsDir(PX4_VERSION))
    /\ lib[Place].defs = 2

\* The package files of a directory.
PackageFiles(files) == {f \in files : f.name.ext \in {"tar.gz", "whl"}}

\* C14: when build_px4 has returned, the .px4 files of DIST_DIR are exactly the
\* images this run built of its targets; from the copy of the packages on, the
\* .tar.gz and .whl files of DIST_DIR are exactly those this run's setup.py
\* left in the library's dist directory; nothing of either kind from an
\* earlier run is left.
C14_ClassesCleaned ==
    /\ pc = "done" /\ should_build_px4 =>
          {f \in dist : f.name.ext = "px4"} =
              {Stored(FirmwareName(targets[j], PX4_VERSION, version), version) :
                  j \in DOMAIN targets}
    /\ Invoked("copyfile", "packages") =>
          /\ PackageFiles(dist) = Packages(PX4_VERSION)
          /\ PackageFiles(dist) = lib[Place].out.entries

\* C14: a second run, of another pinned version than the checkout it found, has
\* built the packages and the firmware.
C14_Witness ==
    /\ pc = "done"
    /\ run = 2
    /\ Invoked("rmtree", "px4")
    /\ should_build_px4
    /\ Invoked("copyfile", "packages")
    /\ PackageFiles(dist) = Packages(PX4_VERSION)
    /\ Cardinality({f \in dist : f.name.ext = "px4"}) = 2

\* A step of clone_px4.
IsPx4Step(e) ==
    e.arg = "px4" /\ e.cmd \in TreeCommands \cup {"git remote show", "rmtree", "git clone"}

\* C15: when clone_px4 has returned in a run that found a checkout of another
\* version, its steps were the reading of the version, the recursive delete,
\* the clone at the pinned version and one git apply, with no fetch, checkout,
\* reset or pull; and on every path git apply ran exactly once in the call.
C15_MismatchPath ==
    /\ ReconcileReturned /\ local_version \notin {<<>>, PX4_VERSION} =>
          SelectSeq(log, IsPx4Step) =
              << Entry("git remote show", "px4", 0), Entry("rmtree", "px4", 0),
                 Entry("git clone", "px4", 0), Entry("git apply", "px4", 0) >>
    /\ ReconcileReturned =>
          Cardinality({i \in DOMAIN log : log[i].cmd = "git apply" /\ log[i].arg = "px4"}) = 1

\* How often a step occurs in the run.
Count(cmd, arg) == Cardinality({i \in DOMAIN log : log[i].cmd = cmd /\ log[i].arg = arg})

\* C16: during the top-level call of clone_px4 and when it has returned,
\* clone_px4 was entered at most twice, has deleted the checkout at most once
\* and cloned at most once; the call made after the delete finds no checkout,
\* so it neither reads a version nor deletes nor calls again.
C16_BoundedReentry ==
    stack # <<>> \/ ReconcileReturned =>
        /\ Len(stack) <= 2
        /\ Count("rmtree", "px4") <= 1
        /\ Count("git clone", "px4") <= 1
        /\ Count("git remote show", "px4") <= 1
        /\ Len(stack) = 2 /\ pc = "px4_isdir" => ~px4.exists
        /\ pc \in {"remote_show", "rmtree", "recurse"} => Len(stack) = 1

\* C16: the nested call made after the delete has cloned and is about to apply
\* the patch.
C16_Witness ==
    /\ Len(stack) = 2
    /\ pc = "apply"
    /\ Count("rmtree", "px4") = 1
    /\ Count("git clone", "px4") = 1

\* C17: no step of the commit stage changes a user.email or a user.name that
\* the checkout's configuration already holds.
C17_IdentityKept ==
    [][ /\ px4.email # "none" => px4'.email = px4.email
        /\ px4.name # "none" => px4'.name = px4.name ]_vars

\* C18: the legacy layout is selected exactly for the pinned versions that
\* precede v1.13.0 as releases (component-wise integer comparison), and every
\* decision of the run that depends on the layout follows this selection: the
\* place of the library, the call of clone_pymavlink, the definitions
\* directory bell.xml is copied to, and the generation of the C bindings.
C18_NumericLayout ==
    run > 0 =>
        /\ IsLegacy(PX4_VERSION) <=> BelowBoundary
        /\ Place = (IF BelowBoundary THEN "legacy" ELSE "nested")
        /\ pc = "clone_pymavlink" => BelowBoundary
        /\ pc = "clone_px4" /\ BelowBoundary => Len(log) > 0 /\ Last.arg = "pymavlink"
        /\ pc = "inject" =>
              MessageDefinitionsDir(PX4_VERSION) = (IF BelowBoundary THEN "legacy" ELSE "nested")
        /\ pc = "mavgen_c" => BelowBoundary
        /\ pc = "config_email" /\ BelowBoundary => Invoked("mavgen", "C")

\* What is left of a set of files when those with one of the endings are removed.
Without(files, file_endings) == {f \in files : f.name.ext \notin file_endings}

\* C19: the cleaning step of build_pymavlink removes from DIST_DIR and from the
\* library's dist directory exactly the .tar.gz and .whl files, the cleaning
\* step of build_px4 removes from DIST_DIR exactly the .px4 files, and every
\* other file of these directories is left as it was; a directory that is not
\* there is left not there, and the step goes on to the next one.
C19_CleanFrame ==
    [][ /\ pc = "pm_clean" /\ pc' # "interrupted" =>
              /\ dist' = Without(dist, {"tar.gz", "whl"})
              /\ lib'[Place].out.isdir = lib[Place].out.isdir
              /\ lib'[Place].out.entries = Without(lib[Place].out.entries, {"tar.gz", "whl"})
              /\ {f \in dist' : f.name.ext \in {"px4", "lua"}} =
                     {f \in dist : f.name.ext \in {"px4", "lua"}}
              /\ pc' = "pm_setup"
        /\ pc = "fw_clean" /\ pc' # "interrupted" =>
              /\ dist' = Without(dist, {"px4"})
              /\ {f \in dist' : f.name.ext \in {"tar.gz", "whl", "lua"}} =
                     {f \in dist : f.name.ext \in {"tar.gz", "whl", "lua"}}
              /\ pc' = "fw_make" ]_vars

\* C19: the library's dist directory was not there when build_pymavlink cleaned
\* it, DIST_DIR held firmware images and the plugin, and they are still there.
C19_Witness ==
    /\ pc = "pm_setup"
    /\ ~lib[Place].out.isdir
    /\ PackageFiles(dist) = {}
    /\ Plugin \in dist
    /\ \E f \in dist : f.name.ext = "px4"

\* The library checkout differs from its HEAD: the pymavlink patch is applied,
\* or its message_definitions/v1.0 was replaced by the copy of line 161.
LibraryChanged(l) == l.patched \/ l.defs # 0

\* C20: when setup.py or mavgen --lang=WLua is invoked the library checkout has
\* no change that is not committed, and when make is invoked the PX4 checkout
\* has none, the nested library inside it included.
C20_BuildsOnCommittedTrees ==
    /\ pc \in {"pm_setup", "pm_wlua"} => ~LibraryChanged(lib[Place])
    /\ pc = "fw_make" =>
          /\ ~WorkingTreeChanged(px4)
          /\ ~px4.staged
          /\ Place = "nested" => ~LibraryChanged(lib["nested"])

====
